---------------------------- MODULE Spec2Model ----------------------------
(***************************************************************************)
(* A model of lmm_judge.py: the response parser (response_parse), the      *)
(* task runner (run_one_prompt) and the batch orchestrator                 *)
(* (multi_process_request).                                                *)
(*                                                                         *)
(* Text is a sequence of one-character strings, so that the regular        *)
(* expressions of response_parse are modelled character by character.      *)
(* A dict is a function whose domain is a set of such sequences.           *)
(***************************************************************************)
EXTENDS Integers, Sequences, FiniteSets

(***************************************************************************)
(* Bounds of the model.                                                    *)
(***************************************************************************)
\* longest judge reply, counted in tokens of Tokens, that ParseInit enumerates
MaxLen == 5
\* number of samples in the battle file
NumSamples == 2
\* largest --worker_num the operator passes
MaxWorkers == 2
\* number of samples in the battle file when two runs overlap
RaceSamples == 1

(***************************************************************************)
(* Strings.                                                                *)
(***************************************************************************)
NL == "\n"
\* the backquote character (a string of the module cannot hold it literally)
BT == "bq"
Fence == <<BT, BT, BT>>
\* the characters str.strip() removes, among those the model produces
Whitespace == {" ", NL}

Tokens == {<<"[">>, <<"]">>, Fence, <<NL>>, <<" ">>, <<"a">>}

RECURSIVE Flatten(_)
Flatten(ss) == IF ss = <<>> THEN <<>> ELSE Head(ss) \o Flatten(Tail(ss))

RECURSIVE TokenSeqs(_)
TokenSeqs(n) ==
    IF n = 0 THEN {<<>>}
    ELSE LET shorter == TokenSeqs(n - 1)
         IN  shorter \cup {<<t>> \o s : t \in Tokens, s \in {x \in shorter : Len(x) = n - 1}}

\* the replies of the spec's testable properties and of the format PROMPTS asks for
ExRoundTrip ==
    <<"[", "A", "]", NL, "f", "o", "o", NL,
      "[", "B", "]", NL, BT, BT, BT, NL, "b", "a", "r", NL, BT, BT, BT, NL>>
ExDuplicate ==
    <<"[", "X", "]", NL, "o", "n", "e", NL, "[", "X", "]", NL, "t", "w", "o", NL>>
ExInlineDuplicate ==
    <<"[", "X", "]", " ", "o", "n", "e", " ", "[", "X", "]", " ", "t", "w", "o">>
ExProseDuplicate == <<"S", "u", "r", "e", ".", NL>> \o ExInlineDuplicate
ExOverall ==
    <<"[", "O", "v", "e", "r", "a", "l", "l", " ", "J", "u", "d", "g", "e", "]", NL, "A", NL>>
ExPromptFormat ==
    <<BT, BT, BT, "[", "A", "c", "c", "u", "r", "a", "c", "y", "]", NL, "o", "k", NL, BT, BT, BT, NL, NL,
      BT, BT, BT, "[", "O", "v", "e", "r", "a", "l", "l", " ", "J", "u", "d", "g", "e", "]", NL, "A", NL, BT, BT, BT>>
ExProse == <<"T", "i", "e", ".">>
ExQidLabel == <<"[", "q", "i", "d", "]", NL, "z">>
ExRawLabel ==
    <<"[", "G", "P", "T", "4", "o", " ", "J", "u", "d", "g", "e", " ",
      "r", "e", "s", "p", "o", "n", "s", "e", "]", "z">>

Examples ==
    {ExRoundTrip, ExDuplicate, ExInlineDuplicate, ExProseDuplicate, ExOverall,
     ExPromptFormat, ExProse, ExQidLabel, ExRawLabel}

Texts == {Flatten(ts) : ts \in TokenSeqs(MaxLen)} \cup Examples

(***************************************************************************)
(* response_parse.                                                         *)
(***************************************************************************)
\* least index p in from..Len(s) with s[p] = c, or 0
IndexFrom(s, c, from) ==
    LET hits == {p \in from..Len(s) : s[p] = c}
    IN  IF hits = {} THEN 0 ELSE CHOOSE p \in hits : \A q \in hits : p <= q

\* s[a..b], empty when a > b
Slice(s, a, b) == IF a > b THEN <<>> ELSE SubSeq(s, a, b)

\* `$' without re.MULTILINE: the end of the string, or just before a final newline
AtDollar(s, p) == p = Len(s) + 1 \/ (p = Len(s) /\ s[p] = NL)

\* str.strip()
Strip(s) ==
    LET keep == {p \in 1..Len(s) : s[p] \notin Whitespace}
    IN  IF keep = {} THEN <<>>
        ELSE LET lo == CHOOSE p \in keep : \A q \in keep : p <= q
                 hi == CHOOSE p \in keep : \A q \in keep : p >= q
             IN  SubSeq(s, lo, hi)

FenceAt(s, p) == p >= 1 /\ p + 2 <= Len(s) /\ SubSeq(s, p, p + 2) = Fence

\* re.sub(r'^```\n?|\n?```$', '', value): the matches are found left to right
\* and do not overlap; the first alternative matches at the start only, the
\* second must end at `$'
StripFence(value) ==
    LET n     == Len(value)
        lead  == IF FenceAt(value, 1)
                 THEN (IF n >= 4 /\ value[4] = NL THEN 4 ELSE 3)
                 ELSE 0
        \* start positions of a match of \n?```$ at or after the first match's end
        withNL == {p \in (lead + 1)..n :
                      value[p] = NL /\ FenceAt(value, p + 1) /\ AtDollar(value, p + 4)}
        bare   == {p \in (lead + 1)..n : FenceAt(value, p) /\ AtDollar(value, p + 3)}
        starts == withNL \cup bare
        first  == CHOOSE p \in starts : \A q \in starts : p <= q
        last   == IF first \in withNL THEN first + 3 ELSE first + 2
    IN  IF starts = {} THEN Slice(value, lead + 1, n)
        ELSE Slice(value, lead + 1, first - 1) \o Slice(value, last + 1, n)

NoMatch == [found |-> FALSE]

\* pattern.finditer's next match of \[(.*?)\](.*?)(?=\[|$) with re.DOTALL,
\* searching from pos: the match starts at the first `[' that a `]' follows,
\* the lazy group 1 ends at the first `]', the lazy group 2 ends at the first
\* position where the lookahead holds
NextMatch(text, pos) ==
    LET open  == IndexFrom(text, "[", pos)
        close == IF open = 0 THEN 0 ELSE IndexFrom(text, "]", open + 1)
        stops == {p \in (close + 1)..(Len(text) + 1) :
                     AtDollar(text, p) \/ text[p] = "["}
        stop  == CHOOSE p \in stops : \A q \in stops : p <= q
    IN  IF open = 0 \/ close = 0 THEN NoMatch
        ELSE [found  |-> TRUE,
              start  |-> open,
              group1 |-> Slice(text, open + 1, close - 1),
              group2 |-> Slice(text, close + 1, stop - 1),
              end    |-> stop]

EmptyDict == [k \in {} |-> <<>>]

\* d.setdefault(key, value): the first occurrence of a key would win
DictSetDefault(d, key, value) ==
    [k \in DOMAIN d \cup {key} |-> IF k \in DOMAIN d THEN d[k] ELSE value]

\* d[key] = value
DictSet(d, key, value) ==
    [k \in DOMAIN d \cup {key} |-> IF k = key THEN value ELSE d[k]]

\* the body of the loop of response_parse
ParseOne(content_dict, m) ==
    LET key   == Strip(m.group1)
        value == StripFence(Strip(m.group2))
    IN  DictSet(content_dict, key, value)

RECURSIVE ParseFrom(_, _, _)
ParseFrom(text, pos, content_dict) ==
    LET m == NextMatch(text, pos)
    IN  IF m.found THEN ParseFrom(text, m.end, ParseOne(content_dict, m))
        ELSE content_dict

response_parse(text) == ParseFrom(text, 1, EmptyDict)

(***************************************************************************)
(* Samples, the dataset and the output directory.                          *)
(***************************************************************************)
K_video_id == <<"v", "i", "d", "e", "o", "_", "i", "d">>
K_qid == <<"q", "i", "d">>
K_persona == <<"p", "e", "r", "s", "o", "n", "a">>
K_question == <<"q", "u", "e", "s", "t", "i", "o", "n">>
K_model_a_answer == <<"m", "o", "d", "e", "l", " ", "a", " ", "a", "n", "s", "w", "e", "r">>
K_model_b_answer == <<"m", "o", "d", "e", "l", " ", "b", " ", "a", "n", "s", "w", "e", "r">>
K_judge_response ==
    <<"G", "P", "T", "4", "o", " ", "J", "u", "d", "g", "e", " ",
      "r", "e", "s", "p", "o", "n", "s", "e">>

\* the keys run_one_prompt reads from the sample
RequiredFields ==
    {K_video_id, K_qid, K_persona, K_question, K_model_a_answer, K_model_b_answer}

Digits == <<"1", "2", "3", "4", "5", "6", "7", "8", "9">>

\* the video identifiers video_data knows
KnownVideos == {<<"v", Digits[i]>> : i \in 1..Len(Digits)}

GoodSample(i) ==
    [k \in RequiredFields |->
        CASE k = K_video_id -> <<"v", Digits[i]>>
          [] k = K_qid -> <<"s", Digits[i]>>
          [] k = K_persona -> <<"p">>
          [] k = K_question -> <<"w", "h", "y", "?">>
          [] k = K_model_a_answer -> <<"a", Digits[i]>>
          [] OTHER -> <<"b", Digits[i]>>]

\* a sample of the battle file that lacks a required field
NoPersonaSample(i) == [k \in RequiredFields \ {K_persona} |-> GoodSample(i)[k]]

\* a sample whose video the dataset does not hold
UnknownVideoSample(i) == DictSet(GoodSample(i), K_video_id, <<"v", "?">>)


\* a run of main() and a second one, started on the same output directory
Runs == {1, 2}

\* the battle files of n samples: one sample per index, each well formed or
\* not; qids are distinct
Batches(n) ==
    {b \in [1..n -> UNION {{GoodSample(i), NoPersonaSample(i), UnknownVideoSample(i)} :
                              i \in 1..n}] :
        \A i \in 1..n : b[i][K_qid] = GoodSample(i)[K_qid]}

\* os.path.join(output_dir, f'{qid}.jsonl')
OutputPath(qid) == qid \o <<".", "j", "s", "o", "n", "l">>

\* the replies the Judge Client returns in the batch model: one with a
\* labelled section, one without any label
ReplyVerdict == <<"[", "J", "]", NL, "A">>
ReplyProse == <<"T", "i", "e">>
Replies == {ReplyVerdict, ReplyProse}

\* sample[key] = value for every item of response_dict
MergeDict(sample, response_dict) ==
    [k \in DOMAIN sample \cup DOMAIN response_dict |->
        IF k \in DOMAIN response_dict THEN response_dict[k] ELSE sample[k]]

\* dump_jsonl([sample], output_path): the file holds the list of records
DumpJsonl(dir, records, output_path) == DictSet(dir, output_path, records)

(***************************************************************************)
(* State.                                                                  *)
(***************************************************************************)
VARIABLES
    data,          \* the battle file: index -> sample
    overlap,       \* does the operator start the second run while the first runs
    files,         \* the output directory: path -> list of records
    orch,          \* per run: the orchestrator's position and locals
    futures,       \* per run: the indices submitted, in order
    task,          \* per run and index: the task's position and its locals
    judged,        \* per run and index: the outcomes of the calls of the Judge Client
    writes,        \* per run and index: calls of dump_jsonl
    existed        \* per run and index: did the output file exist at the task's start

vars == <<data, overlap, files, orch, futures, task, judged, writes, existed>>

Indices == DOMAIN data

IdleOrch == [pc |-> "idle", worker_num |-> 0, count |-> 0, collected |-> {}]

\* the batch before main() is started: battle file d, output directory dir
BatchAtRest(d, ov, dir) ==
    /\ data = d
    /\ overlap = ov
    /\ files = dir
    /\ orch = [r \in Runs |-> IdleOrch]
    /\ futures = [r \in Runs |-> <<>>]
    /\ task = [r \in Runs |-> [i \in DOMAIN d |-> [pc |-> "none", sample |-> d[i], pos |-> 1,
                 content_dict |-> EmptyDict, matches |-> <<>>]]]
    /\ judged = [r \in Runs |-> [i \in DOMAIN d |-> <<>>]]
    /\ writes = [r \in Runs |-> [i \in DOMAIN d |-> 0]]
    /\ existed = [r \in Runs |-> [i \in DOMAIN d |-> FALSE]]

(***************************************************************************)
(* The batch: main, multi_process_request and the tasks of its pool.       *)
(***************************************************************************)
Done == {"returned", "raised"}
Executing == {"exists", "request", "parse"}
Terminal == {"finished", "crashed"}

\* a fresh output directory, a battle file of NumSamples samples, the second
\* run started after the first has ended
Init ==
    /\ \E d \in Batches(NumSamples) : BatchAtRest(d, FALSE, EmptyDict)

\* a battle file of RaceSamples samples, an output directory that may hold
\* files left by an earlier process (here empty ones), the second run started
\* while the first is running
RaceInit ==
    /\ \E d \in Batches(RaceSamples) :
          \E stale \in SUBSET {OutputPath(d[i][K_qid]) : i \in DOMAIN d} :
             BatchAtRest(d, TRUE, [p \in stale |-> <<>>])

\* main: os.makedirs(exist_ok=True), load the battle file, enter
\* multi_process_request and create the pool with max_workers = worker_num
StartRun(r, w) ==
    /\ orch[r].pc = "idle"
    /\ IF r = 1 THEN TRUE
       ELSE IF overlap THEN orch[r - 1].pc # "idle" ELSE orch[r - 1].pc \in Terminal
    /\ orch' = [orch EXCEPT ![r] =
                   [pc |-> "submit", worker_num |-> w, count |-> 0, collected |-> {}]]
    /\ UNCHANGED <<data, overlap, files, futures, task, judged, writes, existed>>

\* a submission loop that stops one sample short
SubmitStopsShort(r) ==
    LET idx == Len(futures[r]) + 1
    IN  /\ orch[r].pc = "submit"
        /\ futures' = [futures EXCEPT ![r] = IF idx = Len(data) THEN @ ELSE Append(@, idx)]
        /\ task' = [task EXCEPT ![r][idx].pc = IF idx = Len(data) THEN @ ELSE "queued"]
        /\ orch' = [orch EXCEPT ![r].pc = IF idx >= Len(data) THEN "collect" ELSE "submit"]
        /\ UNCHANGED <<data, overlap, files, judged, writes, existed>>

\* one executor.submit of the list comprehension, for idx, obj in enumerate(data)
Submit(r) ==
    LET idx == Len(futures[r]) + 1
    IN  /\ orch[r].pc = "submit"
        /\ futures' = [futures EXCEPT ![r] = Append(@, idx)]
        /\ task' = [task EXCEPT ![r][idx].pc = "queued"]
        /\ orch' = [orch EXCEPT ![r].pc = IF idx = Len(data) THEN "collect" ELSE "submit"]
        /\ UNCHANGED <<data, overlap, files, judged, writes, existed>>

\* a free worker process of the pool takes the call and runs it up to the
\* existence check: the six sample[...] reads, where a missing key raises
\* KeyError out of the task, and output_path
StartTask(r, i) ==
    /\ task[r][i].pc = "queued"
    /\ Cardinality({j \in Indices : task[r][j].pc \in Executing}) < orch[r].worker_num
    /\ task' = [task EXCEPT ![r][i].pc =
                   IF RequiredFields \subseteq DOMAIN task[r][i].sample
                   THEN "exists" ELSE "raised"]
    /\ existed' = [existed EXCEPT ![r][i] = OutputPath(data[i][K_qid]) \in DOMAIN files]
    /\ UNCHANGED <<data, overlap, files, orch, futures, judged, writes>>

\* a task runner without the existence check
CheckExistsBlind(r, i) ==
    /\ task[r][i].pc = "exists"
    /\ task' = [task EXCEPT ![r][i].pc =
                   IF task[r][i].sample[K_video_id] \in KnownVideos
                   THEN "request" ELSE "raised"]
    /\ UNCHANGED <<data, overlap, files, orch, futures, judged, writes, existed>>

\* if os.path.exists(output_path): return; otherwise
\* video_data.get_w_video_id(video_id)["inputs"], which is outside the try
CheckExists(r, i) ==
    /\ task[r][i].pc = "exists"
    /\ task' = [task EXCEPT ![r][i].pc =
                   IF OutputPath(task[r][i].sample[K_qid]) \in DOMAIN files
                   THEN "returned"
                   ELSE IF task[r][i].sample[K_video_id] \in KnownVideos
                        THEN "request" ELSE "raised"]
    /\ UNCHANGED <<data, overlap, files, orch, futures, judged, writes, existed>>

\* the Judge Client returns a text, one of replies:
\* sample["GPT4o Judge response"] = response
RequestReturns(r, i, replies) ==
    /\ task[r][i].pc = "request"
    /\ \E response \in replies :
          /\ judged' = [judged EXCEPT ![r][i] =
                           Append(@, [raised |-> FALSE, response |-> response])]
          /\ task' = [task EXCEPT ![r][i].pc = "parse",
                                   ![r][i].sample = DictSet(@, K_judge_response, response)]
    /\ UNCHANGED <<data, overlap, files, orch, futures, writes, existed>>

\* a handler that calls the Judge Client again after a failure
RequestRaisesRetries(r, i) ==
    /\ task[r][i].pc = "request"
    /\ judged' = [judged EXCEPT ![r][i] = Append(@, [raised |-> TRUE, response |-> <<>>])]
    /\ UNCHANGED <<data, overlap, files, orch, futures, task, writes, existed>>

\* a task runner whose try does not cover the call of the Judge Client
RequestRaisesEscapes(r, i) ==
    /\ task[r][i].pc = "request"
    /\ judged' = [judged EXCEPT ![r][i] = Append(@, [raised |-> TRUE, response |-> <<>>])]
    /\ task' = [task EXCEPT ![r][i].pc = "raised"]
    /\ UNCHANGED <<data, overlap, files, orch, futures, writes, existed>>

\* the Judge Client raises: except Exception prints and the task returns
RequestRaises(r, i) ==
    /\ task[r][i].pc = "request"
    /\ judged' = [judged EXCEPT ![r][i] = Append(@, [raised |-> TRUE, response |-> <<>>])]
    /\ task' = [task EXCEPT ![r][i].pc = "returned"]
    /\ UNCHANGED <<data, overlap, files, orch, futures, writes, existed>>

\* one iteration of the loop of response_parse on the response
FindIterTask(r, i) ==
    /\ task[r][i].pc = "parse"
    /\ \E m \in {NextMatch(task[r][i].sample[K_judge_response], task[r][i].pos)} :
          /\ m.found
          /\ task' = [task EXCEPT ![r][i].pos = m.end,
                                   ![r][i].content_dict = ParseOne(@, m),
                                   ![r][i].matches = Append(@, m)]
    /\ UNCHANGED <<data, overlap, files, orch, futures, judged, writes, existed>>

\* a write that creates the file only if it is absent
DumpTaskExclusive(r, i) ==
    LET absent == OutputPath(data[i][K_qid]) \notin DOMAIN files
    IN  /\ task[r][i].pc = "parse"
        /\ ~NextMatch(task[r][i].sample[K_judge_response], task[r][i].pos).found
        /\ task' = [task EXCEPT ![r][i].pc = "returned",
                                 ![r][i].sample = MergeDict(@, task[r][i].content_dict)]
        /\ files' = IF absent
                    THEN DumpJsonl(files, <<task'[r][i].sample>>, OutputPath(data[i][K_qid]))
                    ELSE files
        /\ writes' = [writes EXCEPT ![r][i] = IF absent THEN @ + 1 ELSE @]
        /\ UNCHANGED <<data, overlap, orch, futures, judged, existed>>

\* a write whose path does not depend on the sample
DumpTaskOnePath(r, i) ==
    /\ task[r][i].pc = "parse"
    /\ ~NextMatch(task[r][i].sample[K_judge_response], task[r][i].pos).found
    /\ task' = [task EXCEPT ![r][i].pc = "returned",
                             ![r][i].sample = MergeDict(@, task[r][i].content_dict)]
    /\ files' = DumpJsonl(files, <<task'[r][i].sample>>, OutputPath(data[1][K_qid]))
    /\ writes' = [writes EXCEPT ![r][i] = @ + 1]
    /\ UNCHANGED <<data, overlap, orch, futures, judged, existed>>

\* response_parse returns; the merge into sample; dump_jsonl([sample], output_path)
DumpTask(r, i) ==
    /\ task[r][i].pc = "parse"
    /\ ~NextMatch(task[r][i].sample[K_judge_response], task[r][i].pos).found
    /\ task' = [task EXCEPT ![r][i].pc = "returned",
                             ![r][i].sample = MergeDict(@, task[r][i].content_dict)]
    /\ files' = DumpJsonl(files, <<task'[r][i].sample>>, OutputPath(data[i][K_qid]))
    /\ writes' = [writes EXCEPT ![r][i] = @ + 1]
    /\ UNCHANGED <<data, overlap, orch, futures, judged, existed>>

\* as_completed yields a finished future; job.result() returns None or
\* re-raises the task's exception, which leaves the loop
Collect(r, i) ==
    /\ orch[r].pc = "collect"
    /\ i \notin orch[r].collected
    /\ task[r][i].pc \in Done
    /\ orch' = [orch EXCEPT ![r] =
                   IF task[r][i].pc = "raised"
                   THEN [@ EXCEPT !.pc = "shutdown"]
                   ELSE [@ EXCEPT !.count = @ + 1, !.collected = @ \cup {i}]]
    /\ UNCHANGED <<data, overlap, files, futures, task, judged, writes, existed>>

\* every future was yielded: the with block ends and the final report is printed
Finish(r) ==
    /\ orch[r].pc = "collect"
    /\ orch[r].collected = Indices
    /\ orch' = [orch EXCEPT ![r].pc = "finished"]
    /\ UNCHANGED <<data, overlap, files, futures, task, judged, writes, existed>>

\* the exception leaves the with block: shutdown(wait=True) waits for every
\* task, then the exception ends main without the final report
Abort(r) ==
    /\ orch[r].pc = "shutdown"
    /\ \A i \in Indices : task[r][i].pc \in Done
    /\ orch' = [orch EXCEPT ![r].pc = "crashed"]
    /\ UNCHANGED <<data, overlap, files, futures, task, judged, writes, existed>>

TaskStep(r, i) ==
    \/ StartTask(r, i)
    \/ CheckExists(r, i)
    \/ RequestReturns(r, i, Replies)
    \/ RequestRaises(r, i)
    \/ FindIterTask(r, i)
    \/ DumpTask(r, i)

OrchStep(r) ==
    \/ Submit(r)
    \/ \E i \in Indices : Collect(r, i)
    \/ Finish(r)
    \/ Abort(r)

Next ==
    \/ \E r \in Runs, w \in 1..MaxWorkers : StartRun(r, w)
    \/ \E r \in Runs : Submit(r)
    \/ \E r \in Runs, i \in Indices : StartTask(r, i)
    \/ \E r \in Runs, i \in Indices : CheckExists(r, i)
    \/ \E r \in Runs, i \in Indices : RequestReturns(r, i, Replies)
    \/ \E r \in Runs, i \in Indices : RequestRaises(r, i)
    \/ \E r \in Runs, i \in Indices : FindIterTask(r, i)
    \/ \E r \in Runs, i \in Indices : DumpTask(r, i)
    \/ \E r \in Runs, i \in Indices : Collect(r, i)
    \/ \E r \in Runs : Finish(r)
    \/ \E r \in Runs : Abort(r)

\* one run, then a second one on the same directory
Spec == Init /\ [][Next]_vars

\* two runs at once on the same directory
RaceSpec == RaceInit /\ [][Next]_vars

\* the first run alone
FirstRunNext ==
    \/ \E w \in 1..MaxWorkers : StartRun(1, w)
    \/ Submit(1)
    \/ \E i \in Indices : StartTask(1, i)
    \/ \E i \in Indices : CheckExists(1, i)
    \/ \E i \in Indices : RequestReturns(1, i, Replies)
    \/ \E i \in Indices : RequestRaises(1, i)
    \/ \E i \in Indices : FindIterTask(1, i)
    \/ \E i \in Indices : DumpTask(1, i)
    \/ \E i \in Indices : Collect(1, i)
    \/ Finish(1)
    \/ Abort(1)

\* the pool runs every call handed to it, every call of the Judge Client
\* ends, and the orchestrator is not suspended
FairSpec ==
    /\ Init
    /\ [][FirstRunNext]_vars
    /\ WF_vars(OrchStep(1))
    /\ \A i \in 1..NumSamples : WF_vars(TaskStep(1, i))

\* one task, whatever text the Judge Client returns: a run with one worker on
\* the sample of the spec's end-to-end scenario and a fresh output directory
ParseInit == BatchAtRest(<<GoodSample(1)>>, FALSE, EmptyDict)

ParseNext ==
    \/ StartRun(1, 1)
    \/ Submit(1)
    \/ StartTask(1, 1)
    \/ CheckExists(1, 1)
    \/ RequestReturns(1, 1, Texts)
    \/ FindIterTask(1, 1)
    \/ DumpTask(1, 1)
    \/ Collect(1, 1)
    \/ Finish(1)

ParseSpec == ParseInit /\ [][ParseNext]_vars

(***************************************************************************)
(* Claims about the batch.                                                 *)
(***************************************************************************)
Path(i) == OutputPath(data[i][K_qid])

WellFormed(i) ==
    RequiredFields \subseteq DOMAIN data[i] /\ data[i][K_video_id] \in KnownVideos

Calls(r, i) == Len(judged[r][i])

JudgeRaised(r, i) == \E n \in 1..Len(judged[r][i]) : judged[r][i][n].raised

JudgeReturned(r, i) == \E n \in 1..Len(judged[r][i]) : ~judged[r][i][n].raised

\* the record run_one_prompt builds from sample i and the reply
Enriched(i, response) ==
    MergeDict(DictSet(data[i], K_judge_response, response), response_parse(response))

\* the directory a run leaves that started on an empty one, given what the
\* Judge Client answered for each sample
ExpectedFiles(r) ==
    LET answered == {i \in Indices : JudgeReturned(r, i)}
    IN  [p \in {Path(i) : i \in answered} |->
            LET i == CHOOSE j \in answered : Path(j) = p
                n == CHOOSE m \in 1..Len(judged[r][i]) : ~judged[r][i][m].raised
            IN  <<Enriched(i, judged[r][i][n].response)>>]

\* C1: a task started on a sample whose output file exists never calls the
\* Judge Client and never writes; its existence check returns at once and
\* changes nothing; no file is ever deleted, and a file is rewritten only by
\* a task that started when the file did not exist.  This holds with the
\* second run interleaved with the first.
C1_IdempotentSkip ==
    /\ [](\A r \in Runs, i \in Indices :
             existed[r][i] => judged[r][i] = <<>> /\ writes[r][i] = 0)
    /\ [][\A r \in Runs, i \in Indices :
             (task[r][i].pc = "exists" /\ Path(i) \in DOMAIN files
                 /\ task'[r][i] # task[r][i])
             => (task'[r][i].pc = "returned" /\ files' = files
                 /\ judged' = judged /\ writes' = writes)]_vars
    /\ [][\A p \in DOMAIN files :
             /\ p \in DOMAIN files'
             /\ files'[p] # files[p] =>
                   \E r \in Runs, i \in Indices :
                      p = Path(i) /\ writes'[r][i] = writes[r][i] + 1 /\ ~existed[r][i]]_vars

\* both runs have skipped a sample whose file was there, with an empty file, from the start
C1_Witness ==
    \E i \in Indices :
       /\ existed[1][i] /\ existed[2][i]
       /\ task[1][i].pc = "returned" /\ task[2][i].pc = "returned"
       /\ files[Path(i)] = <<>>

\* C2: in a run on an empty directory over well-formed samples in which the
\* Judge Client raises for exactly one sample, the orchestrator never sees an
\* exception, and the run ends with the final report, every sample collected,
\* and exactly the files of the other samples.
C2_Isolation ==
    \A r \in Runs, q \in Indices :
       ( /\ \A i \in Indices : WellFormed(i)
         /\ \A o \in Runs : o # r => \A i \in Indices : writes[o][i] = 0
         /\ JudgeRaised(r, q)
         /\ \A i \in Indices \ {q} : ~JudgeRaised(r, i) )
       => /\ orch[r].pc \notin {"shutdown", "crashed"}
          /\ task[r][q].pc = "returned"
          /\ Path(q) \notin DOMAIN files
          /\ orch[r].pc = "finished" =>
                /\ orch[r].count = Len(data)
                /\ DOMAIN files = {Path(i) : i \in Indices \ {q}}
                /\ Cardinality(DOMAIN files) = Len(data) - 1
                /\ \A i \in Indices \ {q} : Calls(r, i) = 1

\* the first run has printed its final report after the Judge Client raised
\* for one sample and answered for another
C2_Witness ==
    /\ orch[1].pc = "finished"
    /\ orch[2].pc = "idle"
    /\ \E q \in Indices :
          /\ JudgeRaised(1, q)
          /\ \A i \in Indices \ {q} : writes[1][i] = 1
          /\ Indices \ {q} # {}

\* C3: a sample with an unknown video or a missing field makes its task
\* return normally without a file, no exception reaches the orchestrator,
\* and the run ends with its final report.
C3_DataErrorsSwallowed ==
    \A r \in Runs, i \in Indices :
       ~WellFormed(i) =>
          /\ task[r][i].pc # "raised"
          /\ writes[r][i] = 0
          /\ orch[r].pc \notin {"shutdown", "crashed"}

Failed(i) == task[1][i].pc = "raised" \/ JudgeRaised(1, i)

\* C4: whatever the pool size, the samples are submitted once each, in
\* order; a run in which no task fails ends with its final report and
\* exactly one file per sample; and a started run reaches that report unless
\* a task fails.
C4_FanOut ==
    /\ [](\A n \in 1..Len(futures[1]) : futures[1][n] = n)
    /\ [](orch[1].pc \notin {"idle", "submit"} => Len(futures[1]) = Len(data))
    /\ []((orch[1].pc = "finished" /\ \A i \in Indices : ~Failed(i)) =>
             /\ orch[1].count = Len(data)
             /\ DOMAIN files = {Path(i) : i \in Indices}
             /\ Cardinality(DOMAIN files) = Len(data)
             /\ \A i \in Indices : writes[1][i] = 1)
    /\ (orch[1].pc = "submit") ~>
          (orch[1].pc = "finished" \/ \E i \in Indices : Failed(i))

\* a run with fewer workers than samples has ended with a file for every sample
C4_Witness ==
    /\ orch[1].pc = "finished"
    /\ orch[1].worker_num < Len(data)
    /\ \A i \in Indices : writes[1][i] = 1 /\ Path(i) \in DOMAIN files

\* C6: within a run the Judge Client is called at most once per sample; a
\* file exists exactly for the samples some run wrote, and a run whose call
\* raised wrote none; the second run skips exactly the samples the first run
\* wrote and calls the Judge Client once for every other well-formed sample;
\* and if it meets no failure of the Judge Client, every well-formed sample
\* has its file at the end.
C6_RetryByRerun ==
    /\ \A r \in Runs, i \in Indices :
          /\ Calls(r, i) <= 1
          /\ writes[r][i] <= 1
          /\ writes[r][i] = 1 => JudgeReturned(r, i)
          /\ JudgeRaised(r, i) => writes[r][i] = 0
    /\ \A i \in Indices : Path(i) \in DOMAIN files <=> \E r \in Runs : writes[r][i] = 1
    /\ \A i \in Indices :
          task[2][i].pc \in Done =>
             /\ existed[2][i] <=> writes[1][i] = 1
             /\ existed[2][i] => Calls(2, i) = 0 /\ task[2][i].pc = "returned"
             /\ (~existed[2][i] /\ WellFormed(i)) => Calls(2, i) = 1
    /\ (orch[2].pc \in Terminal /\ \A i \in Indices : ~JudgeRaised(2, i)) =>
          \A i \in Indices :
             WellFormed(i) =>
                /\ Path(i) \in DOMAIN files
                /\ writes[1][i] + writes[2][i] = 1

\* the second run has ended: it skipped a sample the first run wrote and
\* wrote one for which the Judge Client had raised in the first run
C6_Witness ==
    /\ orch[2].pc \in Terminal
    /\ \E i, j \in Indices :
          /\ JudgeRaised(1, i) /\ writes[2][i] = 1
          /\ writes[1][j] = 1 /\ existed[2][j] /\ Calls(2, j) = 0
    /\ \A i \in Indices : Path(i) \in DOMAIN files

\* C9: the existence check is not repeated: a task that has passed it calls
\* the Judge Client and writes its file whether or not the file has appeared
\* since, so a sample is written twice exactly when both runs' tasks started
\* before either wrote, and then the Judge Client was called twice for it.
C9_CheckThenWrite ==
    /\ [][\A r \in Runs, i \in Indices :
             (task[r][i].pc = "request" /\ task'[r][i] # task[r][i])
             => Len(judged'[r][i]) = Len(judged[r][i]) + 1]_vars
    /\ [][\A r \in Runs, i \in Indices :
             (task[r][i].pc = "parse" /\ task'[r][i].pc # "parse")
             => /\ writes'[r][i] = writes[r][i] + 1
                /\ files'[Path(i)] = <<task'[r][i].sample>>]_vars
    /\ [](\A i \in Indices :
             writes[1][i] + writes[2][i] = 2 =>
                /\ ~existed[1][i] /\ ~existed[2][i]
                /\ Calls(1, i) = 1 /\ Calls(2, i) = 1)

\* both runs have called the Judge Client for the same sample and both have
\* written its file
C9_Witness ==
    \E i \in Indices :
       /\ Calls(1, i) = 1 /\ Calls(2, i) = 1
       /\ writes[1][i] = 1 /\ writes[2][i] = 1

\* C10: the directory a run leaves is a function of the samples and of what
\* the Judge Client answered for each, whatever the pool size and the order
\* in which the tasks ran; a step writes no file but the one of the task
\* that takes it, and changes no other task's sample.
C10_ScheduleIndependence ==
    /\ []((orch[1].pc \in Terminal /\ orch[2].pc = "idle") => files = ExpectedFiles(1))
    /\ [][\A p \in DOMAIN files' :
             (p \notin DOMAIN files \/ files'[p] # files[p]) =>
                \E r \in Runs, i \in Indices :
                   p = Path(i) /\ task[r][i].pc = "parse" /\ task'[r][i].pc = "returned"]_vars
    /\ [][Cardinality({ri \in Runs \X Indices :
                          task'[ri[1]][ri[2]] # task[ri[1]][ri[2]]}) <= 1]_vars

\* the second sample's task has written its file while the first sample's
\* task is still running
C10_Witness ==
    /\ Len(data) >= 2
    /\ task[1][2].pc = "returned" /\ writes[1][2] = 1
    /\ task[1][1].pc \in Executing


(***************************************************************************)
(* Claims about the reply of the Judge Client and the record written.      *)
(***************************************************************************)
\* the text the Judge Client returned to the task
Reply(r, i) == judged[r][i][1].response

\* the task has parsed a reply, written its record and returned
Parsed(r, i) == task[r][i].pc = "returned" /\ JudgeReturned(r, i)

\* a `[' that a `]' follows somewhere
HasLabel(t) == \E i, j \in 1..Len(t) : i < j /\ t[i] = "[" /\ t[j] = "]"

\* the text from its first `[' on: what is left when the prose before is dropped
DropProse(t) ==
    LET open == IndexFrom(t, "[", 1)
    IN  IF open = 0 THEN <<>> ELSE SubSeq(t, open, Len(t))

\* what the loop of response_parse stores for a match
MatchKey(m) == Strip(m.group1)

MatchValue(m) == StripFence(Strip(m.group2))

Trimmed(v) == v = <<>> \/ (v[1] \notin Whitespace /\ v[Len(v)] \notin Whitespace)

Unfenced(v) == ~FenceAt(v, 1) /\ ~FenceAt(v, Len(v) - 2)

\* C5: whatever text the Judge Client returns, the file written holds one
\* record in which every original field of the sample keeps its value, the
\* raw-response field equals the returned text and every parsed section
\* appears under its label.
C5_PersistedRecord ==
    \A i \in Indices :
       (Parsed(1, i) /\ ~existed[1][i] /\ orch[2].pc = "idle") =>
          /\ Path(i) \in DOMAIN files
          /\ Len(files[Path(i)]) = 1
          /\ LET persisted == files[Path(i)][1]
                 sections  == response_parse(Reply(1, i))
             IN  /\ \A k \in RequiredFields :
                       k \in DOMAIN persisted /\ persisted[k] = data[i][k]
                 /\ K_judge_response \in DOMAIN persisted
                 /\ persisted[K_judge_response] = Reply(1, i)
                 /\ \A k \in DOMAIN sections :
                       k \in DOMAIN persisted /\ persisted[k] = sections[k]

\* C7: every label is mapped to the body that runs from its closing bracket
\* to the next `[' or the end of the text, and every body of the mapping is
\* trimmed and has no fence marker left at either end; the round-trip
\* example yields {A: foo, B: bar}.
C7_SectionExtraction ==
    \A r \in Runs, i \in Indices :
       Parsed(r, i) =>
          LET text == Reply(r, i)
              found == task[r][i].matches
              mapping == task[r][i].content_dict
          IN  /\ \A n \in 1..Len(found) :
                    LET m == found[n]
                        close == IndexFrom(text, "]", m.start + 1)
                    IN  /\ text[m.start] = "["
                        /\ m.group1 = Slice(text, m.start + 1, close - 1)
                        /\ m.group2 = Slice(text, close + 1, m.end - 1)
                        /\ \A p \in (close + 1)..(m.end - 1) : text[p] # "["
                        /\ m.end = Len(text) + 1 \/ text[m.end] = "[" \/ AtDollar(text, m.end)
                        /\ MatchKey(m) \in DOMAIN mapping
              /\ \A k \in DOMAIN mapping : Trimmed(mapping[k]) /\ Unfenced(mapping[k])
              /\ text = ExRoundTrip =>
                    mapping = [k \in {<<"A">>, <<"B">>} |->
                                  IF k = <<"A">> THEN <<"f", "o", "o">> ELSE <<"b", "a", "r">>]

\* C8: the parser returns a mapping for every text; a text with no bracket
\* label yields the empty mapping, the prose before the first label adds
\* nothing, and a label that occurs more than once keeps the body of its last
\* occurrence ([X] one [X] two yields {X: two}).
C8_ParserTolerance ==
    \A r \in Runs, i \in Indices :
       Parsed(r, i) =>
          LET text == Reply(r, i)
              found == task[r][i].matches
              mapping == task[r][i].content_dict
              Occurrences(k) == {n \in 1..Len(found) : MatchKey(found[n]) = k}
              LastOccurrence(k) == CHOOSE n \in Occurrences(k) : \A o \in Occurrences(k) : o <= n
          IN  /\ mapping = response_parse(text)
              /\ ~HasLabel(text) => mapping = EmptyDict
              /\ mapping = response_parse(DropProse(text))
              /\ \A n \in 1..Len(found) : found[n].start >= IndexFrom(text, "[", 1)
              /\ DOMAIN mapping = {MatchKey(found[n]) : n \in 1..Len(found)}
              /\ \A k \in DOMAIN mapping : mapping[k] = MatchValue(found[LastOccurrence(k)])
              /\ text \in {ExDuplicate, ExInlineDuplicate, ExProseDuplicate} =>
                    mapping = [k \in {<<"X">>} |-> <<"t", "w", "o">>]

\* the parser has returned for a text with prose before a label that occurs
\* twice with different bodies
C8_Witness ==
    /\ Parsed(1, 1)
    /\ IndexFrom(Reply(1, 1), "[", 1) > 1
    /\ \E n, o \in 1..Len(task[1][1].matches) :
          /\ n < o
          /\ MatchKey(task[1][1].matches[n]) = MatchKey(task[1][1].matches[o])
          /\ MatchValue(task[1][1].matches[n]) # MatchValue(task[1][1].matches[o])

=============================================================================
